---- MODULE Spec2Model ----
(***************************************************************************)
(* A model of the symbol demangling dispatcher (src/src/Demangle.cpp) and  *)
(* of the arena allocator and back-reference tables of the Microsoft       *)
(* demangler (src/include/demangler/MicrosoftDemangle.h).                  *)
(*                                                                         *)
(* A string is a sequence of one-character strings; positions in the model *)
(* of std::string_view are 0-based as in the source.                       *)
(***************************************************************************)
EXTENDS Integers, Sequences, FiniteSets, TLC

VARIABLES
    \* ---- demangle() / nonMicrosoftDemangle() ----
    MangledName,        \* the argument of the call under way
    Result,             \* the std::string the call writes to
    pc,                 \* position in the operation under way
    calls,              \* external demangler calls made so far, in order
    attempts,           \* strategies demangle() has tried so far, in order
    retval,             \* what the call returned (once pc = "done")
    args,               \* the remaining arguments of the call, and Result on entry
    reads,              \* the positions of the sniffed view read through operator[]
    \* ---- Demangler session: BackrefContext and Error ----
    FunctionParams, FunctionParamCount, Names, NamesCount, Error,
    memoCalls,          \* how many nodes the session has offered to each table
    lastOp,             \* the last back-reference operation and what it returned
    \* ---- ArenaAllocator ----
    blocks,             \* the block list, Head first
    regions,            \* every region handed out so far, in order
    lastAlloc           \* the last allocation request and how it was served

dispatchVars == <<MangledName, Result, pc, calls, attempts, retval, args, reads>>
backrefVars  == <<FunctionParams, FunctionParamCount, Names, NamesCount, Error,
                  memoCalls, lastOp>>
arenaVars    == <<blocks, regions, lastAlloc>>
vars == <<dispatchVars, backrefVars, arenaVars>>

(***************************************************************************)
(* Bounds of the input space.                                              *)
(***************************************************************************)
MaxUnderscores == 6
MaxTail == 3

\* '_', 'Z', 'R', 'D' and '.' are the characters the code tests for; "x" is any other.
Alphabet == {"_", "Z", "R", "D", ".", "x"}

StringsUpTo(n) == UNION {[1..k -> Alphabet] : k \in 0..n}

Repeat(c, n) == [i \in 1..n |-> c]

\* Every string of up to MaxTail characters, behind up to one '.' and up to
\* MaxUnderscores underscores.
Inputs ==
    {Repeat(".", d) \o Repeat("_", n) \o t :
        d \in 0..1, n \in 0..MaxUnderscores, t \in StringsUpTo(MaxTail)}

(***************************************************************************)
(* std::string_view                                                        *)
(***************************************************************************)
\* std::string_view::npos, size_t(-1): larger than any position or size.
NPOS == 2147483647

\* A find_first_not_of that answers size() where the source's answers npos.
find_first_not_of_size(S, c) ==
    IF \E i \in 1..Len(S) : S[i] # c
    THEN (CHOOSE i \in 1..Len(S) : S[i] # c /\ \A j \in 1..(i - 1) : S[j] = c) - 1
    ELSE Len(S)

find_first_not_of(S, c) ==
    IF \E i \in 1..Len(S) : S[i] # c
    THEN (CHOOSE i \in 1..Len(S) : S[i] # c /\ \A j \in 1..(i - 1) : S[j] = c) - 1
    ELSE NPOS

\* S[Pos]: past the end of the view the read is undefined, and may yield any
\* character.
CharsAt(S, Pos) == IF Pos < Len(S) THEN {S[Pos + 1]} ELSE Alphabet

starts_with(S, P) == Len(S) >= Len(P) /\ SubSeq(S, 1, Len(P)) = P

remove_prefix(S, n) == SubSeq(S, n + 1, Len(S))

\* A substr that starts one character late.
substr_late(S, pos) == SubSeq(S, pos + 2, Len(S))

substr(S, pos) == SubSeq(S, pos + 1, Len(S))

(***************************************************************************)
(* Prefix sniffing                                                         *)
(***************************************************************************)
\* The values isItaniumEncoding(S) may return and the positions it reads through
\* S[Pos]: && evaluates S[Pos] only when Pos > 0 && Pos <= 4.
isItaniumEncoding(S) ==
    LET Pos == find_first_not_of(S, "_")
        guard == Pos > 0 /\ Pos <= 4
    IN  [values |-> IF guard THEN {c = "Z" : c \in CharsAt(S, Pos)} ELSE {FALSE},
         reads  |-> IF guard THEN {Pos} ELSE {}]

\* A Rust test that looks at the underscore alone.
isRustEncoding_loose(S) == starts_with(S, <<"_">>)

isRustEncoding(S) == starts_with(S, <<"_", "R">>)

isDLangEncoding(S) == starts_with(S, <<"_", "D">>)

(***************************************************************************)
(* The external demanglers.  Each returns a malloc'ed string or nullptr;   *)
(* which of the two is the caller's nondeterministic input ok.  The text   *)
(* returned names the demangler and the view it was given.                 *)
(***************************************************************************)
Null == [null |-> TRUE, str |-> <<>>]

Str(s) == [null |-> FALSE, str |-> s]

itaniumDemangle(S, ParseParams, ok) ==
    IF ok THEN Str(<<IF ParseParams THEN "i" ELSE "j">> \o S) ELSE Null

rustDemangle(S, ok) == IF ok THEN Str(<<"r">> \o S) ELSE Null

dlangDemangle(S, ok) == IF ok THEN Str(<<"d">> \o S) ELSE Null

microsoftDemangle(S, ok) == IF ok THEN Str(<<"m">> \o S) ELSE Null

(***************************************************************************)
(* nonMicrosoftDemangle                                                    *)
(***************************************************************************)
\* A dot test that forgets CanHaveLeadingDot.
LeadingDot_anyway(S, CanHaveLeadingDot) ==
    Len(S) > 0 /\ S[1] = "."

\* Whether the leading dot is dropped from the view (and Result set to ".").
LeadingDot(S, CanHaveLeadingDot) ==
    CanHaveLeadingDot /\ Len(S) > 0 /\ S[1] = "."

\* Result = s;
Assign(R, s) == s

\* Result += s;
PlusAssign(R, s) == R \o s

\* The outcomes of the whole call, one for each result the external demangler may
\* give: the return value, Result on return, the external call made, the view that
\* was sniffed, the positions read in it and what the demangler returned.
nonMicrosoftDemangle(S, R, CanHaveLeadingDot, ParseParams) ==
    LET dot  == LeadingDot(S, CanHaveLeadingDot)
        M    == IF dot THEN remove_prefix(S, 1) ELSE S
        R1   == IF dot THEN Assign(R, <<".">>) ELSE R
        it   == isItaniumEncoding(M)
        Outcome(itanium, ok) ==
            LET fn == IF itanium THEN "itaniumDemangle"
                      ELSE IF isRustEncoding(M) THEN "rustDemangle"
                      ELSE IF isDLangEncoding(M) THEN "dlangDemangle"
                      ELSE "none"
                Demangled ==
                      IF fn = "itaniumDemangle" THEN itaniumDemangle(M, ParseParams, ok)
                      ELSE IF fn = "rustDemangle" THEN rustDemangle(M, ok)
                      ELSE IF fn = "dlangDemangle" THEN dlangDemangle(M, ok)
                      ELSE Null
            IN  [ret       |-> ~Demangled.null,
                 Result    |-> IF Demangled.null THEN R1
                               ELSE PlusAssign(R1, Demangled.str),
                 calls     |-> IF fn = "none" THEN <<>> ELSE <<[fn |-> fn, arg |-> M]>>,
                 sniffed   |-> M,
                 dot       |-> dot,
                 reads     |-> it.reads,
                 Demangled |-> Demangled]
    IN  {Outcome(itanium, ok) : itanium \in it.values, ok \in BOOLEAN}

(***************************************************************************)
(* demangle(), one action per strategy it tries                            *)
(***************************************************************************)
NoReturn == [returned |-> FALSE, value |-> <<>>]

Returned(v) == [returned |-> TRUE, value |-> v]

\* What a strategy's attempt is remembered by: the view it was given, whether it
\* succeeded, and its complete output (the dot it kept, then the demangler's text).
Attempt(n, S, r) ==
    [strategy |-> n, arg |-> S, ok |-> r.ret,
     out |-> IF r.ret THEN (IF r.dot THEN <<".">> ELSE <<>>) \o r.Demangled.str ELSE <<>>]

\* Demangler(): both tables empty, no error.
BackrefInit ==
    /\ FunctionParams = <<>> /\ FunctionParamCount = 0
    /\ Names = <<>> /\ NamesCount = 0
    /\ Error = FALSE
    /\ memoCalls = [FunctionParams |-> 0, Names |-> 0]
    /\ lastOp = [op |-> "none"]

\* No arena has been constructed: Head is null.
ArenaIdle == blocks = <<>> /\ regions = <<>> /\ lastAlloc = [op |-> "none"]

\* No call of demangle or nonMicrosoftDemangle is under way.
DispatchIdle ==
    /\ MangledName = <<>> /\ Result = <<>> /\ pc = "idle"
    /\ calls = <<>> /\ attempts = <<>> /\ retval = NoReturn
    /\ args = [CanHaveLeadingDot |-> FALSE, ParseParams |-> TRUE, Result0 |-> <<>>]
    /\ reads = {}

\* demangle(MangledName) is entered.  The defaults of nonMicrosoftDemangle's last two
\* parameters are set by its declaration: ParseParams is true, and the model covers
\* both values of CanHaveLeadingDot.
DemangleInit ==
    /\ MangledName \in Inputs
    /\ Result = <<>>
    /\ pc = "nonMicrosoft"
    /\ calls = <<>> /\ attempts = <<>> /\ retval = NoReturn
    /\ args \in [CanHaveLeadingDot : BOOLEAN, ParseParams : {TRUE}, Result0 : {<<>>}]
    /\ reads = {}

\* if (nonMicrosoftDemangle(MangledName, Result)) return Result;
TryNonMicrosoft ==
    /\ pc = "nonMicrosoft"
    /\ \E r \in nonMicrosoftDemangle(MangledName, Result, args.CanHaveLeadingDot,
                                     args.ParseParams) :
             /\ Result' = r.Result
             /\ calls' = calls \o r.calls
             /\ attempts' = Append(attempts, Attempt(1, MangledName, r))
             /\ reads' = reads \cup {[view |-> r.sniffed, pos |-> p] : p \in r.reads}
             /\ IF r.ret
                THEN pc' = "done" /\ retval' = Returned(r.Result)
                ELSE pc' = "stripped" /\ UNCHANGED retval
    /\ UNCHANGED <<MangledName, args, backrefVars, arenaVars>>

\* if (starts_with(MangledName, '_') && nonMicrosoftDemangle(MangledName.substr(1),
\*     Result, /*CanHaveLeadingDot=*/false)) return Result;
TryStripped ==
    /\ pc = "stripped"
    /\ IF starts_with(MangledName, <<"_">>)
       THEN \E r \in nonMicrosoftDemangle(substr(MangledName, 1), Result, FALSE,
                                           args.ParseParams) :
                  /\ Result' = r.Result
                  /\ calls' = calls \o r.calls
                  /\ attempts' = Append(attempts, Attempt(2, substr(MangledName, 1), r))
                  /\ reads' = reads \cup {[view |-> r.sniffed, pos |-> p] : p \in r.reads}
                  /\ IF r.ret
                     THEN pc' = "done" /\ retval' = Returned(r.Result)
                     ELSE pc' = "microsoft" /\ UNCHANGED retval
       ELSE /\ pc' = "microsoft"
            /\ UNCHANGED <<Result, calls, attempts, reads, retval>>
    /\ UNCHANGED <<MangledName, args, backrefVars, arenaVars>>

\* A last strategy that forgets Result = MangledName, and one that appends where
\* the source assigns.
MicrosoftResult_keeps(R, Demangled, S) ==
    IF ~Demangled.null THEN Assign(R, Demangled.str) ELSE R

MicrosoftResult_appends(R, Demangled, S) ==
    IF ~Demangled.null THEN PlusAssign(R, Demangled.str) ELSE PlusAssign(R, S)

\* Result after the last strategy: the Microsoft demangler's text, or the input.
MicrosoftResult(R, Demangled, S) ==
    IF ~Demangled.null THEN Assign(R, Demangled.str) ELSE Assign(R, S)

\* if (char* Demangled = microsoftDemangle(MangledName, nullptr, nullptr)) ... return Result;
TryMicrosoft ==
    /\ pc = "microsoft"
    /\ \E ok \in BOOLEAN :
         LET Demangled == microsoftDemangle(MangledName, ok)
             R == MicrosoftResult(Result, Demangled, MangledName)
         IN  /\ Result' = R
             /\ calls' = Append(calls, [fn |-> "microsoftDemangle", arg |-> MangledName])
             /\ attempts' = Append(attempts,
                    [strategy |-> 3, arg |-> MangledName, ok |-> ~Demangled.null,
                     out |-> Demangled.str])
             /\ retval' = Returned(R)
    /\ pc' = "done"
    /\ UNCHANGED <<MangledName, args, reads, backrefVars, arenaVars>>

InitDemangle == DemangleInit /\ BackrefInit /\ ArenaIdle

NextDemangle == TryNonMicrosoft \/ TryStripped \/ TryMicrosoft

SpecDemangle == InitDemangle /\ [][NextDemangle]_vars

(***************************************************************************)
(* nonMicrosoftDemangle() called on its own, with any arguments            *)
(***************************************************************************)
ResultsOnEntry == {<<>>, <<"p">>, <<".">>}

NonMicrosoftInit ==
    /\ MangledName \in Inputs
    /\ args \in [CanHaveLeadingDot : BOOLEAN, ParseParams : BOOLEAN,
                  Result0 : ResultsOnEntry]
    /\ Result = args.Result0
    /\ pc = "call"
    /\ calls = <<>> /\ attempts = <<>> /\ retval = NoReturn
    /\ reads = {}

CallNonMicrosoftDemangle ==
    /\ pc = "call"
    /\ \E r \in nonMicrosoftDemangle(MangledName, Result, args.CanHaveLeadingDot,
                                     args.ParseParams) :
             /\ Result' = r.Result
             /\ calls' = r.calls
             /\ attempts' = <<[strategy |-> 0, arg |-> r.sniffed, ok |-> r.ret,
                               out |-> r.Demangled.str]>>
             /\ reads' = {[view |-> r.sniffed, pos |-> p] : p \in r.reads}
             /\ retval' = Returned(r.ret)
    /\ pc' = "done"
    /\ UNCHANGED <<MangledName, args, backrefVars, arenaVars>>

InitNonMicrosoft == NonMicrosoftInit /\ BackrefInit /\ ArenaIdle

NextNonMicrosoft == CallNonMicrosoftDemangle

SpecNonMicrosoft == InitNonMicrosoft /\ [][NextNonMicrosoft]_vars

(***************************************************************************)
(* BackrefContext and the Demangler operations that fill and read it.      *)
(* A table is the sequence of its first Count slots; a node is known by    *)
(* the order in which the session offered it to the table.                 *)
(***************************************************************************)
\* How many nodes a session offers to one table at most.
MaxMemo == 12

\* A table with room for one entry more.
Max_plus_one == 10 + 1

\* BackrefContext::Max
Max == 10

Digits == 0..9

NullNode == [null |-> TRUE, node |-> 0]

Node(n) == [null |-> FALSE, node |-> n]

\* A table after node n is offered to it: appended while there is room, dropped after.
Memorize(Table, Count, n) ==
    IF Count >= Max THEN Table ELSE Append(Table, n)

MemorizeCount(Count) == IF Count >= Max THEN Count ELSE Count + 1

\* The slot a digit refers to: an error past the count, and then no slot is read.
Lookup(Table, Count, k) ==
    IF k >= Count
    THEN [ret |-> NullNode, Error |-> TRUE, slots |-> {}]
    ELSE [ret |-> Node(Table[k + 1]), Error |-> FALSE, slots |-> {k}]

\* memorizeString / memorizeIdentifier: a name is offered to Names.
MemorizeName ==
    /\ memoCalls.Names < MaxMemo
    /\ LET n == memoCalls.Names + 1
       IN  /\ Names' = Memorize(Names, NamesCount, n)
           /\ NamesCount' = MemorizeCount(NamesCount)
           /\ memoCalls' = [memoCalls EXCEPT !.Names = n]
           /\ lastOp' = [op |-> "memorize", table |-> "Names", node |-> n,
                         before |-> Names, countBefore |-> NamesCount,
                         errorBefore |-> Error]
    /\ UNCHANGED <<FunctionParams, FunctionParamCount, Error, dispatchVars, arenaVars>>

\* demangleFunctionParameterList: a parameter type is offered to FunctionParams.
MemorizeParam ==
    /\ memoCalls.FunctionParams < MaxMemo
    /\ LET n == memoCalls.FunctionParams + 1
       IN  /\ FunctionParams' = Memorize(FunctionParams, FunctionParamCount, n)
           /\ FunctionParamCount' = MemorizeCount(FunctionParamCount)
           /\ memoCalls' = [memoCalls EXCEPT !.FunctionParams = n]
           /\ lastOp' = [op |-> "memorize", table |-> "FunctionParams", node |-> n,
                         before |-> FunctionParams, countBefore |-> FunctionParamCount,
                         errorBefore |-> Error]
    /\ UNCHANGED <<Names, NamesCount, Error, dispatchVars, arenaVars>>

\* demangleBackRefName: the digit k is looked up in Names.
LookupName ==
    /\ \E k \in Digits :
         LET r == Lookup(Names, NamesCount, k)
         IN  /\ Error' = (Error \/ r.Error)
             /\ lastOp' = [op |-> "lookup", table |-> "Names", k |-> k, ret |-> r.ret,
                           slots |-> r.slots, errorBefore |-> Error]
    /\ UNCHANGED <<FunctionParams, FunctionParamCount, Names, NamesCount, memoCalls,
                   dispatchVars, arenaVars>>

\* demangleFunctionParameterList: the digit k is looked up in FunctionParams.
LookupParam ==
    /\ \E k \in Digits :
         LET r == Lookup(FunctionParams, FunctionParamCount, k)
         IN  /\ Error' = (Error \/ r.Error)
             /\ lastOp' = [op |-> "lookup", table |-> "FunctionParams", k |-> k,
                           ret |-> r.ret, slots |-> r.slots, errorBefore |-> Error]
    /\ UNCHANGED <<FunctionParams, FunctionParamCount, Names, NamesCount, memoCalls,
                   dispatchVars, arenaVars>>

InitBackrefs == BackrefInit /\ DispatchIdle /\ ArenaIdle

NextBackrefs == MemorizeName \/ MemorizeParam \/ LookupName \/ LookupParam

SpecBackrefs == InitBackrefs /\ [][NextBackrefs]_vars

(***************************************************************************)
(* ArenaAllocator.  blocks[1] is Head; a block's id is its place in the    *)
(* order of creation.  Sizes stay far below the width of size_t.           *)
(***************************************************************************)
\* How many allocations one arena serves at most.
MaxAllocs == 3

AllocUnit == 4096

\* Where new uint8_t[Capacity] may put a buffer.
BufAddrs == {65536, 65544}

\* Size of allocUnalignedBuffer(Size).
BufferSizes == {0, 1, 3, 4095, 4097}

\* sizeof(T) and alignof(T) of the node types allocated; sizeof(T) < AllocUnit.
NodeTypes == {[size |-> 1, align |-> 1], [size |-> 4, align |-> 4],
              [size |-> 24, align |-> 8]}

\* Count of allocArray<T>(Count).
Counts == {0, 1, 3, 600}

Max2(a, b) == IF a >= b THEN a ELSE b

\* std::max(AllocUnit, Size), and a capacity that is AllocUnit whatever the size.
NewCapacity_unit(Size) == AllocUnit

NewCapacity(Size) == Max2(AllocUnit, Size)

\* (P + Align - 1) & ~(Align - 1), Align a power of two.
AlignUp(P, Align) == ((P + Align - 1) \div Align) * Align

\* addNode(Capacity): the new block becomes Head.
addNode(bs, Capacity, Buf) ==
    <<[Buf |-> Buf, Used |-> 0, Capacity |-> Capacity, id |-> Len(bs) + 1]>> \o bs

\* Head->Used += Size + Adjustment, and a bump that forgets the padding.
BumpUsed_unpadded(Used, Size, Adjustment) == Used + Size

BumpUsed(Used, Size, Adjustment) == Used + Size + Adjustment

\* allocUnalignedBuffer(Size): the blocks after the call and the region returned.
allocUnalignedBuffer(bs, Size, Buf) ==
    LET P    == bs[1].Used
        bs1  == [bs EXCEPT ![1].Used = bs[1].Used + Size]
    IN  IF bs1[1].Used <= bs1[1].Capacity
        THEN [blocks |-> bs1, region |-> [blk |-> bs[1].id, off |-> P, size |-> Size]]
        ELSE LET bs2 == addNode(bs1, NewCapacity(Size), Buf)
             IN  [blocks |-> [bs2 EXCEPT ![1].Used = Size],
                  region |-> [blk |-> bs2[1].id, off |-> 0, size |-> Size]]

\* The body allocArray and alloc share: Size bytes at the next address aligned to
\* Align, or at the start of a new block of the given capacity.
allocAligned(bs, Size, Align, Capacity, Buf) ==
    LET P          == bs[1].Buf + bs[1].Used
        AlignedP   == AlignUp(P, Align)
        Adjustment == AlignedP - P
        bs1 == [bs EXCEPT ![1].Used = BumpUsed(bs[1].Used, Size, Adjustment)]
    IN  IF bs1[1].Used <= bs1[1].Capacity
        THEN [blocks |-> bs1,
              region |-> [blk |-> bs[1].id, off |-> AlignedP - bs[1].Buf, size |-> Size]]
        ELSE LET bs2 == addNode(bs1, Capacity, Buf)
             IN  [blocks |-> [bs2 EXCEPT ![1].Used = Size],
                  region |-> [blk |-> bs2[1].id, off |-> 0, size |-> Size]]

\* allocArray<T>(Count)
allocArray(bs, T, Count, Buf) ==
    allocAligned(bs, Count * T.size, T.align, NewCapacity(Count * T.size), Buf)

\* alloc<T>(...)
alloc(bs, T, Buf) == allocAligned(bs, T.size, T.align, AllocUnit, Buf)

\* ArenaAllocator()
ArenaInit ==
    /\ \E Buf \in BufAddrs : blocks = addNode(<<>>, AllocUnit, Buf)
    /\ regions = <<>>
    /\ lastAlloc = [op |-> "none"]

Served(op, Size, Align, r) ==
    /\ blocks' = r.blocks
    /\ regions' = Append(regions, r.region)
    /\ lastAlloc' = [op |-> op, Size |-> Size, Align |-> Align, before |-> blocks,
                     region |-> r.region]
    /\ UNCHANGED <<dispatchVars, backrefVars>>

AllocUnalignedBuffer ==
    /\ Len(regions) < MaxAllocs
    /\ \E Size \in BufferSizes, Buf \in BufAddrs :
         Served("allocUnalignedBuffer", Size, 1, allocUnalignedBuffer(blocks, Size, Buf))

AllocArray ==
    /\ Len(regions) < MaxAllocs
    /\ \E T \in NodeTypes, Count \in Counts, Buf \in BufAddrs :
         Served("allocArray", Count * T.size, T.align, allocArray(blocks, T, Count, Buf))

Alloc ==
    /\ Len(regions) < MaxAllocs
    /\ \E T \in NodeTypes, Buf \in BufAddrs :
         Served("alloc", T.size, T.align, alloc(blocks, T, Buf))

InitArena == ArenaInit /\ DispatchIdle /\ BackrefInit

NextArena == AllocUnalignedBuffer \/ AllocArray \/ Alloc

SpecArena == InitArena /\ [][NextArena]_vars

(***************************************************************************)
(* The vocabulary of the properties, stated on the characters of a string  *)
(***************************************************************************)
BeginsWith(S, c) == Len(S) > 0 /\ S[1] = c

\* One to four underscores immediately followed by 'Z'.
UnderscoresThenZ(S) ==
    \E n \in 1..4 :
        /\ Len(S) > n
        /\ \A i \in 1..n : S[i] = "_"
        /\ S[n + 1] = "Z"

BeginsWithPair(S, a, b) == Len(S) >= 2 /\ S[1] = a /\ S[2] = b

MatchesRule(fn, S) ==
    \/ fn = "itaniumDemangle" /\ UnderscoresThenZ(S)
    \/ fn = "rustDemangle" /\ BeginsWithPair(S, "_", "R")
    \/ fn = "dlangDemangle" /\ BeginsWithPair(S, "_", "D")

NonMicrosoft == {"itaniumDemangle", "rustDemangle", "dlangDemangle"}

Recognized(S) == \E fn \in NonMicrosoft : MatchesRule(fn, S)

Called(fns) == \E i \in 1..Len(calls) : calls[i].fn \in fns

AllFailed == \A i \in 1..Len(attempts) : ~attempts[i].ok

\* The view nonMicrosoftDemangle sniffs, given its arguments.
DotCase == args.CanHaveLeadingDot /\ BeginsWith(MangledName, ".")

Sniffed == IF DotCase THEN Tail(MangledName) ELSE MangledName

(***************************************************************************)
(* Properties of demangle(), under SpecDemangle                            *)
(***************************************************************************)
\* C1: demangle ends after at most three strategies, whatever the input, and returns
\* a string; when every strategy it tried failed, the string is the input itself.
C1_FallbackTotality ==
    /\ Len(attempts) <= 3
    /\ pc = "done" \/ ENABLED NextDemangle
    /\ pc = "done" =>
          /\ retval.returned
          /\ retval.value \in Seq(Alphabet \cup {"i", "j", "r", "d", "m"})
          /\ AllFailed => retval.value = MangledName

\* A rule matches the input, its body is refused by every demangler, and the input
\* comes back.
C1_Witness ==
    /\ pc = "done" /\ Recognized(MangledName)
    /\ Len(attempts) = 3 /\ AllFailed
    /\ retval.value = MangledName

\* C2 as stated: an input a non-Microsoft rule recognizes never reaches the Microsoft
\* parser, and an input no rule recognizes never reaches a non-Microsoft demangler.
\* The input is taken as nonMicrosoftDemangle sniffs it, less the leading '.' it
\* drops.
C2_FamiliesNeverMix ==
    /\ Recognized(Sniffed) => ~Called({"microsoftDemangle"})
    /\ ~Recognized(Sniffed) => ~Called(NonMicrosoft)

\* The views demangle hands to nonMicrosoftDemangle's sniffing.
ViewsSniffed ==
    {Sniffed} \cup (IF BeginsWith(MangledName, "_") THEN {Tail(MangledName)} ELSE {})

\* C2 amended: once a non-Microsoft demangler has succeeded the Microsoft parser is
\* not attempted; a non-Microsoft demangler is attempted only on a view its rule
\* matches, the view being the input (less a leading '.' where CanHaveLeadingDot
\* allows it) or the input less one leading underscore; when no rule matches either
\* view, none is attempted.
C2_FamiliesAmended ==
    /\ (\E i \in 1..Len(attempts) : attempts[i].strategy \in {1, 2} /\ attempts[i].ok)
          => ~Called({"microsoftDemangle"})
    /\ \A i \in 1..Len(calls) :
          calls[i].fn \in NonMicrosoft =>
              calls[i].arg \in ViewsSniffed /\ MatchesRule(calls[i].fn, calls[i].arg)
    /\ (\A v \in ViewsSniffed : ~Recognized(v)) => ~Called(NonMicrosoft)

\* A recognized input whose demangler succeeds: demangle is done without the
\* Microsoft parser.
C2_Witness ==
    /\ pc = "done" /\ Recognized(MangledName)
    /\ attempts[1].ok /\ Called(NonMicrosoft) /\ ~Called({"microsoftDemangle"})

\* C3: what demangle returns is the complete output of one strategy that succeeded,
\* or the input; nothing a failed strategy left in Result is part of it.
C3_ReturnsOneOutputOrInput ==
    pc = "done" =>
        \/ retval.value = MangledName
        \/ \E i \in 1..Len(attempts) : attempts[i].ok /\ retval.value = attempts[i].out

\* The first strategy dropped a dot, wrote "." to Result and failed; the Microsoft
\* demangler then succeeded.
C3_Witness ==
    /\ pc = "done" /\ DotCase
    /\ Len(attempts) = 2 /\ ~attempts[1].ok
    /\ attempts[2].strategy = 3 /\ attempts[2].ok
    /\ retval.value = attempts[2].out

\* C5: the strategies are tried in the order 1, 2, 3, each only after every earlier
\* one has failed; 1 and 3 are given the whole input, 2 only an input that begins
\* with '_' and then the input less that one underscore; demangle returns the
\* output of the first success and tries nothing after it.
C5_StrategyOrder ==
    LET n == Len(attempts)
        Tried(k) == \E i \in 1..n : attempts[i].strategy = k
    IN  /\ \A i \in 1..n : attempts[i].strategy \in 1..3
        /\ \A i, j \in 1..n :
              i < j => attempts[i].strategy < attempts[j].strategy /\ ~attempts[i].ok
        /\ n >= 1 => attempts[1].strategy = 1
        /\ Tried(3) /\ BeginsWith(MangledName, "_") => Tried(2)
        /\ \A i \in 1..n :
              /\ attempts[i].strategy \in {1, 3} => attempts[i].arg = MangledName
              /\ attempts[i].strategy = 2 =>
                    BeginsWith(MangledName, "_") /\ attempts[i].arg = Tail(MangledName)
        /\ \A i \in 1..Len(calls) :
              calls[i].fn = "microsoftDemangle" => calls[i].arg = MangledName
        /\ pc = "done" =>
              /\ n >= 1
              /\ attempts[n].ok \/ attempts[n].strategy = 3
              /\ attempts[n].ok => retval.value = attempts[n].out

\* The first strategy failed, the second succeeded on the input less one underscore
\* (which still begins with an underscore), and the third never ran.
C5_Witness ==
    /\ pc = "done" /\ Len(attempts) = 2
    /\ attempts[2].strategy = 2 /\ attempts[2].ok
    /\ BeginsWith(attempts[2].arg, "_")
    /\ ~Called({"microsoftDemangle"})

(***************************************************************************)
(* Properties of nonMicrosoftDemangle(), under SpecNonMicrosoft            *)
(***************************************************************************)
\* C4: the view sniffed goes to itaniumDemangle exactly when it begins with one to
\* four underscores and then 'Z', to rustDemangle exactly when it begins with "_R",
\* to dlangDemangle exactly when it begins with "_D"; at most one demangler is
\* called; for any other view none is, the call returns false, and no position at
\* or past the end of the view is read.
C4_PrefixClassification ==
    /\ \A rd \in reads : rd.pos < Len(rd.view)
    /\ pc = "done" =>
          /\ Len(calls) <= 1
          /\ \A fn \in NonMicrosoft :
                (calls = <<[fn |-> fn, arg |-> Sniffed]>>) <=> MatchesRule(fn, Sniffed)
          /\ ~Recognized(Sniffed) => calls = <<>> /\ retval.value = FALSE

\* Five underscores before 'Z': no demangler is called and the call returns false.
C4_Witness ==
    /\ pc = "done"
    /\ MangledName = <<"_", "_", "_", "_", "_", "Z">>
    /\ calls = <<>> /\ retval.value = FALSE

\* C6: with CanHaveLeadingDot and an input that begins with '.', the view sniffed is
\* the input less that one '.', and on success Result is "." followed by the
\* demangler's text; otherwise the whole input is sniffed, nothing but the
\* demangler's text is added to Result, and an input that begins with '.' matches
\* no rule, so that the call returns false.
C6_LeadingDot ==
    pc = "done" =>
        IF DotCase
        THEN /\ attempts[1].arg = Tail(MangledName)
             /\ \A i \in 1..Len(calls) : calls[i].arg = Tail(MangledName)
             /\ retval.value => Result = <<".">> \o attempts[1].out
        ELSE /\ attempts[1].arg = MangledName
             /\ \A i \in 1..Len(calls) : calls[i].arg = MangledName
             /\ retval.value => Result = args.Result0 \o attempts[1].out
             /\ ~retval.value => Result = args.Result0
             /\ BeginsWith(MangledName, ".") => calls = <<>> /\ ~retval.value

\* "._Z" with CanHaveLeadingDot, demangled: Result had other text on entry.
C6_Witness ==
    /\ pc = "done" /\ DotCase /\ retval.value
    /\ args.Result0 # <<>>
    /\ Result = <<".">> \o attempts[1].out

\* C10: when nonMicrosoftDemangle returns false, Result is what it was on entry.
C10_ResultUntouchedOnFailure ==
    (pc = "done" /\ ~retval.value) => Result = args.Result0

(***************************************************************************)
(* Properties of the back-reference tables, under SpecBackrefs             *)
(***************************************************************************)
TableOf(t) == IF t = "Names" THEN Names ELSE FunctionParams

CountOf(t) == IF t = "Names" THEN NamesCount ELSE FunctionParamCount

\* C7: neither table ever holds more than 10 entries; offering a node to a table of
\* 10 leaves the table, its count and Error as they were; a lookup of digit k below
\* the count returns the node in slot k, and any other lookup sets Error, returns
\* null and reads no slot.
C7_BackrefBound ==
    /\ Len(Names) <= 10 /\ NamesCount = Len(Names)
    /\ Len(FunctionParams) <= 10 /\ FunctionParamCount = Len(FunctionParams)
    /\ lastOp.op = "memorize" =>
          IF lastOp.countBefore >= 10
          THEN /\ TableOf(lastOp.table) = lastOp.before
               /\ CountOf(lastOp.table) = lastOp.countBefore
               /\ Error = lastOp.errorBefore
          ELSE /\ TableOf(lastOp.table) = Append(lastOp.before, lastOp.node)
               /\ CountOf(lastOp.table) = lastOp.countBefore + 1
    /\ lastOp.op = "lookup" =>
          /\ \A slot \in lastOp.slots : slot < CountOf(lastOp.table)
          /\ IF lastOp.k < CountOf(lastOp.table)
             THEN /\ ~lastOp.ret.null
                  /\ lastOp.ret.node = TableOf(lastOp.table)[lastOp.k + 1]
                  /\ Error = lastOp.errorBefore
             ELSE lastOp.ret.null /\ Error

\* Both tables are full, Names was just offered one more node, and no error is set.
C7_Witness ==
    /\ NamesCount = 10 /\ FunctionParamCount = 10
    /\ lastOp.op = "memorize" /\ lastOp.table = "Names" /\ lastOp.countBefore = 10
    /\ ~Error

(***************************************************************************)
(* Properties of the arena, under SpecArena                                *)
(***************************************************************************)
\* The padding that brings address a up to a multiple of Align.
Padding(a, Align) == (Align - (a % Align)) % Align

BlockById(id) == blocks[Len(blocks) + 1 - id]

\* C8: a request that fits in what is left of the current block, padding included,
\* is served from that block and no block is created; any other request creates
\* exactly one block, of capacity max(4096, size), which becomes the current one,
\* serves the request at offset 0 and has Used = size.  A new arena has one block
\* of capacity 4096 with Used = 0.
C8_BumpOrNewBlock ==
    /\ regions = <<>> =>
          Len(blocks) = 1 /\ blocks[1].Capacity = 4096 /\ blocks[1].Used = 0
    /\ lastAlloc.op # "none" =>
          LET old  == lastAlloc.before
              size == lastAlloc.Size
              pad  == Padding(old[1].Buf + old[1].Used, lastAlloc.Align)
          IN  IF size + pad <= old[1].Capacity - old[1].Used
              THEN /\ Len(blocks) = Len(old)
                   /\ lastAlloc.region.blk = old[1].id
                   /\ lastAlloc.region.off = old[1].Used + pad
                   /\ blocks[1].Used = old[1].Used + pad + size
              ELSE /\ Len(blocks) = Len(old) + 1
                   /\ \A i \in 1..Len(old) : blocks[i + 1].id = old[i].id
                   /\ blocks[1].Capacity = (IF size > 4096 THEN size ELSE 4096)
                   /\ lastAlloc.region.blk = blocks[1].id
                   /\ lastAlloc.region.off = 0
                   /\ blocks[1].Used = size

\* An array larger than a block did not fit behind an earlier allocation and got a
\* block of its own size.
C8_Witness ==
    /\ lastAlloc.op = "allocArray" /\ lastAlloc.Size > 4096
    /\ lastAlloc.before[1].Used > 0
    /\ Len(blocks) = Len(lastAlloc.before) + 1
    /\ blocks[1].Capacity = lastAlloc.Size

\* C9: every region handed out lies inside the buffer of one block, no two regions
\* share a byte, and the current block has Used <= Capacity.
C9_RegionsInsideAndDisjoint ==
    /\ blocks[1].Used <= blocks[1].Capacity
    /\ \A i \in 1..Len(regions) :
          /\ regions[i].blk \in 1..Len(blocks)
          /\ regions[i].off >= 0
          /\ regions[i].off + regions[i].size <= BlockById(regions[i].blk).Capacity
    /\ \A i, j \in 1..Len(regions) :
          (i < j /\ regions[i].blk = regions[j].blk) =>
              \/ regions[i].off + regions[i].size <= regions[j].off
              \/ regions[j].off + regions[j].size <= regions[i].off

\* Three regions: an odd-sized buffer, a padded node behind it in the same block,
\* and a buffer that needed a block of its own.
C9_Witness ==
    /\ Len(regions) = 3
    /\ regions[1].size = 3 /\ regions[2].size = 24
    /\ regions[2].blk = regions[1].blk /\ regions[2].off > 3
    /\ regions[3].blk # regions[1].blk /\ regions[3].size = 4097

====
